---- MODULE Spec2Model ----
(***************************************************************************)
(* Model of WORK.py: the status classification step, analyze_task_data and *)
(* the per-sheet loop of load_and_process_data.                            *)
(*                                                                         *)
(* Strings are sequences of one-character strings.  A cell of a DataFrame  *)
(* is a record [na, s]: na is TRUE for a missing value (NaN), and s is the *)
(* text str() gives for a value that is present.                           *)
(***************************************************************************)
EXTENDS Integers, Sequences, FiniteSets, TLC

(* ---------------------------------------------------------------- bounds *)
MaxStatusLen == 4
AffixLen == 1
MaxRows == 2
MaxCols == 2
NumSheets == 2
FetchRows == 1

(* ------------------------------------------------------- strings, cells *)
NaN == [na |-> TRUE, s |-> <<>>]

Cell(s) == [na |-> FALSE, s |-> s]

\* str(value): a missing value prints as "nan"
PyStr(c) == IF c.na THEN <<"n", "a", "n">> ELSE c.s

UpperCase ==
  <<"A", "B", "C", "D", "E", "F", "G", "H", "I", "J", "K", "L", "M",
    "N", "O", "P", "Q", "R", "S", "T", "U", "V", "W", "X", "Y", "Z">>

LowerCase ==
  <<"a", "b", "c", "d", "e", "f", "g", "h", "i", "j", "k", "l", "m",
    "n", "o", "p", "q", "r", "s", "t", "u", "v", "w", "x", "y", "z">>

\* the lower-case letter of each upper-case letter
LowerOf == [u \in {UpperCase[k] : k \in 1..26} |->
              LowerCase[CHOOSE k \in 1..26 : UpperCase[k] = u]]

LowerChar(c) == IF c \in DOMAIN LowerOf THEN LowerOf[c] ELSE c

\* str.lower()
Lower(s) == [k \in 1..Len(s) |-> LowerChar(s[k])]

Whitespace == {" ", "\t", "\n"}

RECURSIVE LStrip(_)
LStrip(s) ==
  IF s # <<>> /\ Head(s) \in Whitespace THEN LStrip(Tail(s)) ELSE s

RECURSIVE RStrip(_)
RStrip(s) ==
  IF s # <<>> /\ s[Len(s)] \in Whitespace
  THEN RStrip(SubSeq(s, 1, Len(s) - 1))
  ELSE s

\* str.strip()
Strip(s) == RStrip(LStrip(s))

Digits == <<"0", "1", "2", "3", "4", "5", "6", "7", "8", "9">>

\* the value of each digit character
DigitValue == [c \in {Digits[k] : k \in 1..10} |->
                 (CHOOSE k \in 1..10 : Digits[k] = c) - 1]

\* \d
IsDigit(c) == c \in DOMAIN DigitValue

DigitVal(c) == DigitValue[c]

\* the number of consecutive digits of s from position q on (the greedy \d*)
RECURSIVE DigitRun(_, _)
DigitRun(s, q) ==
  IF q >= 1 /\ q <= Len(s) /\ IsDigit(s[q]) THEN 1 + DigitRun(s, q + 1) ELSE 0

(* ------------------------------ re.findall(r"[-+]?\d*\.\d+|\d+", s)[0] *)
\* first alternative [-+]?\d*\.\d+ tried at p: the position of the last
\* character of the match, 0 when it does not match there
Alt1End(s, p) ==
  LET q == IF p <= Len(s) /\ s[p] \in {"-", "+"} THEN p + 1 ELSE p
      r == q + DigitRun(s, q)
      n == DigitRun(s, r + 1)
  IN  IF r <= Len(s) /\ s[r] = "." /\ n > 0 THEN r + n ELSE 0

\* second alternative \d+ tried at p
Alt2End(s, p) ==
  IF DigitRun(s, p) > 0 THEN p + DigitRun(s, p) - 1 ELSE 0

\* the alternation: the first alternative that matches at p wins
MatchEnd(s, p) ==
  IF Alt1End(s, p) # 0 THEN Alt1End(s, p) ELSE Alt2End(s, p)

\* findall(...)[0]: the leftmost match; found = FALSE is the IndexError
FindallFirst(s) ==
  IF \E p \in 1..Len(s) : MatchEnd(s, p) # 0
  THEN LET p == CHOOSE p \in 1..Len(s) :
                  /\ MatchEnd(s, p) # 0
                  /\ \A q \in 1..(p - 1) : MatchEnd(s, q) = 0
       IN  [found |-> TRUE, tok |-> SubSeq(s, p, MatchEnd(s, p))]
  ELSE [found |-> FALSE, tok |-> <<>>]

RECURSIVE DigitsToNat(_)
DigitsToNat(s) ==
  IF s = <<>> THEN 0
  ELSE 10 * DigitsToNat(SubSeq(s, 1, Len(s) - 1)) + DigitVal(s[Len(s)])

RECURSIVE Pow10(_)
Pow10(k) == IF k = 0 THEN 1 ELSE 10 * Pow10(k - 1)

\* float(token) of a token the pattern matched, as the exact decimal
\* (-1)^neg * num / 10^scale
Float(tok) ==
  LET signed == tok[1] \in {"-", "+"}
      body == IF signed THEN Tail(tok) ELSE tok
      ip == DigitRun(body, 1)
      frac == IF ip < Len(body) THEN SubSeq(body, ip + 2, Len(body)) ELSE <<>>
  IN  [neg |-> tok[1] = "-",
       num |-> DigitsToNat(SubSeq(body, 1, ip) \o frac),
       scale |-> Len(frac)]

\* the comparison with >= written for >
GreaterOrEqual(v, n) == ~v.neg /\ v.num >= n * Pow10(v.scale)

\* numeric_val > n, for a natural number n
GreaterThan(v, n) == ~v.neg /\ v.num > n * Pow10(v.scale)

(* ------------------------------------------------- classification step *)
Buckets == {"Completed", "Almost Complete", "Half Done", "Work in Progress"}

\* statuses = {'Completed': 0, 'Almost Complete': 0, ...}
ZeroStatuses == [b \in Buckets |-> 0]

\* the dictionary {}
EmptyDict == [b \in {} |-> 0]

Inc(statuses, b) == [statuses EXCEPT ![b] = @ + 1]

COMPLETE == <<"c", "o", "m", "p", "l", "e", "t", "e">>

NAN == <<"n", "a", "n">>

\* sub in s
Contains(s, sub) ==
  \E p \in 1..(Len(s) - Len(sub) + 1) : SubSeq(s, p, p + Len(sub) - 1) = sub

\* the test written as 'complete' in status_str
IsCompleteSubstring(status_str) == Contains(status_str, COMPLETE)

\* status_str == 'complete'
IsComplete(status_str) == status_str = COMPLETE

AlmostThreshold == 90

HalfThreshold == 50

\* the bucket of a parsed number: the if / elif / else chain
NumericBucket(v) ==
  IF GreaterThan(v, AlmostThreshold) THEN "Almost Complete"
  ELSE IF GreaterThan(v, HalfThreshold) THEN "Half Done"
  ELSE "Work in Progress"

\* the except branch written to count no value
CountsNoText(status_str) == FALSE

\* status_str not in ['nan', '']
CountsAsText(status_str) == status_str \notin {NAN, <<>>}

\* one iteration of `for status in df[achievement_col]`
ClassifyStep(statuses, status) ==
  LET status_str == Strip(Lower(PyStr(status)))
      m == FindallFirst(status_str)
  IN  IF IsComplete(status_str) THEN Inc(statuses, "Completed")
      ELSE IF m.found THEN Inc(statuses, NumericBucket(Float(m.tok)))
      ELSE IF CountsAsText(status_str) THEN Inc(statuses, "Work in Progress")
      ELSE statuses

(* ---------------------------------------------------- analyze_task_data *)
\* the priority list with its first two names exchanged
task_description_cols_swapped == <<"KPI ID", "Project/Task Name", "Issue">>

task_description_cols == <<"Project/Task Name", "KPI ID", "Issue">>

possible_status_cols ==
  <<"% Achievement", "% Achievement ", "Achievement", "Status">>

Range(f) == {f[k] : k \in DOMAIN f}

\* next((col for col in candidates if col in df.columns), None); <<>> is None
FirstPresent(candidates, columns) ==
  IF \E k \in 1..Len(candidates) : candidates[k] \in Range(columns)
  THEN LET k == CHOOSE k \in 1..Len(candidates) :
                  /\ candidates[k] \in Range(columns)
                  /\ \A j \in 1..(k - 1) : candidates[j] \notin Range(columns)
       IN  <<candidates[k]>>
  ELSE <<>>

AllNa(row) == \A c \in DOMAIN row : row[c].na

KeepRow(row) == ~AllNa(row)

\* the dropna call left out
KeepAllRows(rows) == rows

\* df.dropna(how='all')
DropNa(rows) == SelectSeq(rows, KeepRow)

\* df[col].notna().sum()
NotNaCount(rows, col) == Cardinality({k \in 1..Len(rows) : ~rows[k][col].na})

\* len(df) if not primary_task_col else df[primary_task_col].notna().sum()
TotalTasks(rows, primary_task_col) ==
  IF primary_task_col = <<>> THEN Len(rows)
  ELSE NotNaCount(rows, primary_task_col[1])

\* the for loop over df[achievement_col]
RECURSIVE Tally(_, _, _)
Tally(rows, col, statuses) ==
  IF rows = <<>> THEN statuses
  ELSE Tally(Tail(rows), col, ClassifyStep(statuses, Head(rows)[col]))

\* return 0, {}, None; processed_df is a sequence, <<>> for None
ZeroResult(warned) ==
  [total |-> 0, statuses |-> EmptyDict, processed_df |-> <<>>, warned |-> warned]

\* df.raises: some pandas operation on df raises inside the function's try
analyze_task_data(df) ==
  LET rows == DropNa(df.rows)
      primary_task_col == FirstPresent(task_description_cols, df.columns)
      achievement_col == FirstPresent(possible_status_cols, df.columns)
  IN  IF df.raises THEN ZeroResult(TRUE)
      ELSE IF rows = <<>> THEN ZeroResult(FALSE)
      ELSE [total |-> TotalTasks(rows, primary_task_col),
            statuses |-> IF achievement_col = <<>> THEN ZeroStatuses
                         ELSE Tally(rows, achievement_col[1], ZeroStatuses),
            processed_df |-> <<[df EXCEPT !.rows = rows]>>,
            warned |-> FALSE]

(* ------------------------------------------------ load_and_process_data *)
all_sheet_names ==
  <<"ADC G", "ADC RD", "ADC UD", "ADC Khanna", "ADC Jagraon", "DRO",
    "SDM RaikotHQ", "CMFO", "AC G", "EAC(UT)", "SDM-Khanna", "SDM-Jagraon",
    "SDM-Samrala", "SDM-East", "SDM-West", "AC(UT)",
    "Political Non Political Works", "DC Meeting Actionables",
    "SDM-Political Non Political Wor", "Extra", "Back Sheet">>

\* the configured list, cut to its first NumSheets names
sheet_names == SubSeq(all_sheet_names, 1, NumSheets)

\* a dict is the sequence of its items [k, v] in insertion order
Keys(d) == [n \in 1..Len(d) |-> d[n].k]

HasKey(d, k) == \E n \in 1..Len(d) : d[n].k = k

Get(d, k) == d[CHOOSE n \in 1..Len(d) : d[n].k = k].v

\* a new key put in front of the others
DictSetFront(d, k, v) == <<[k |-> k, v |-> v]>> \o d

\* d[k] = v: a present key keeps its place and takes the new value
DictSet(d, k, v) ==
  IF HasKey(d, k)
  THEN [n \in 1..Len(d) |-> IF d[n].k = k THEN [k |-> k, v |-> v] ELSE d[n]]
  ELSE Append(d, [k |-> k, v |-> v])

\* {'Total Tasks': total, **statuses}
Summary(total, statuses) ==
  [key \in {"Total Tasks"} \cup DOMAIN statuses |->
     IF key = "Total Tasks" THEN total ELSE statuses[key]]

\* the condition without total > 0
IncludedAnyTotal(r) == r.processed_df # <<>>

\* processed_df is not None and total > 0
Included(r) == r.processed_df # <<>> /\ r.total > 0

ErrorKinds == {"HTTPError", "RequestException", "Exception"}

\* the inner except clauses without the last one (except Exception)
InnerHandlerNoCatchAll(kind) ==
  IF kind = "HTTPError" THEN "http"
  ELSE IF kind = "RequestException" THEN "network"
  ELSE ""

\* the except clause of the inner try that takes an exception, "" when none
\* does: HTTPError is tried first, then RequestException, then Exception
InnerHandler(kind) ==
  IF kind = "HTTPError" THEN "http"
  ELSE IF kind = "RequestException" THEN "network"
  ELSE IF kind \in ErrorKinds THEN "process"
  ELSE ""

HandlerLevel(h) == IF h = "process" THEN "warning" ELSE "error"

(* ----------------------------------------------------------------- state *)
VARIABLES
  pc,               \* position: of the function the specification runs
  status,           \* the indicator value handed to the classification step
  statuses,         \* the bucket counts of the classification step
  df,               \* the DataFrame handed to analyze_task_data
  result,           \* what analyze_task_data returned
  match,            \* whether re.search found the sheet id in sheet_url
  i,                \* index into sheet_names of the sheet processed next
  department_data,  \* dict: sheet name -> summary
  department_dfs,   \* dict: sheet name -> cleaned DataFrame
  messages,         \* st.error / st.warning calls so far
  attempts,         \* requests.get calls per sheet name
  fetched,          \* what each request so far came back with
  returned          \* "" while running, then "mappings" or "None"

vars ==
  <<pc, status, statuses, df, result, match, i, department_data,
    department_dfs, messages, attempts, fetched, returned>>

classifyVars == <<status, statuses>>

analyzeVars == <<df, result>>

loadVars ==
  <<match, i, department_data, department_dfs, messages, attempts, fetched,
    returned>>

(* ---------------------------------------------------------------- inputs *)
SeqsUpTo(S, n) == UNION {[1..k -> S] : k \in 0..n}

Alphabet == {"0", "5", "9", ".", "-", "%", " "}

\* what may stand before and after a word
AffixAlphabet == {" ", "9", "%"}

TBD == <<"T", "B", "D">>

ONE_HUNDRED == <<"1", "0", "0">>

Words ==
  {COMPLETE,
   <<"C", "o", "m", "p", "l", "e", "t", "e">>,
   <<"c", "o", "m", "p", "l", "e", "t", "e", "d">>,
   <<"i", "n", "c", "o", "m", "p", "l", "e", "t", "e">>,
   TBD,
   NAN,
   ONE_HUNDRED,
   <<"1", "0", "0", "%">>,
   <<"+", "9", "5">>}

StatusStrings ==
  SeqsUpTo(Alphabet, MaxStatusLen)
    \cup {a \o w \o b : a \in SeqsUpTo(AffixAlphabet, AffixLen),
                        w \in Words,
                        b \in SeqsUpTo(AffixAlphabet, AffixLen)}

StatusValues == {NaN} \cup {Cell(s) : s \in StatusStrings}

IsInjective(f) == \A a, b \in DOMAIN f : f[a] = f[b] => a = b

ColumnPool == {"Project/Task Name", "KPI ID", "Issue", "Status", "Remarks"}

\* column names are unique within a DataFrame, and there is at least one
ColumnLists(pool, n) ==
  {cl \in UNION {[1..k -> pool] : k \in 1..n} : IsInjective(cl)}

Frames(columnLists, maxRows, cells) ==
  UNION {{[columns |-> cl, rows |-> rs, raises |-> FALSE] :
            rs \in SeqsUpTo([Range(cl) -> cells], maxRows)} :
         cl \in columnLists}

RaisingFrame ==
  [columns |-> <<"Status">>, rows |-> <<>>, raises |-> TRUE]

AnalyzeCells == {NaN, Cell(<<"6", "0">>)}

AnalyzeFrames ==
  Frames(ColumnLists(ColumnPool, MaxCols), MaxRows, AnalyzeCells)
    \cup {RaisingFrame}

FetchColumns == {<<"Status">>, <<"Issue", "Status">>}

FetchCells == {NaN, Cell(TBD)}

NoFrame == [columns |-> <<>>, rows |-> <<>>, raises |-> FALSE]

\* what requests.get + raise_for_status + pd.read_csv come back with
FetchOutcomes ==
  {[kind |-> e, df |-> NoFrame] : e \in ErrorKinds}
    \cup {[kind |-> "ok", df |-> f] :
            f \in Frames(FetchColumns, FetchRows, FetchCells) \cup {RaisingFrame}}

(* ------------------------------------------------------------------ idle *)
ClassifyIdle == status = NaN /\ statuses = ZeroStatuses

AnalyzeIdle == df = NoFrame /\ result = ZeroResult(FALSE)

LoadIdle ==
  /\ match = FALSE
  /\ i = 0
  /\ department_data = <<>>
  /\ department_dfs = <<>>
  /\ messages = <<>>
  /\ attempts = [n \in Range(sheet_names) |-> 0]
  /\ fetched = <<>>
  /\ returned = ""

(* ------------------------------------- specification: classification step *)
InitClassify ==
  /\ pc = "classify"
  /\ status \in StatusValues
  /\ statuses = ZeroStatuses
  /\ AnalyzeIdle
  /\ LoadIdle

Classify ==
  /\ pc = "classify"
  /\ statuses' = ClassifyStep(statuses, status)
  /\ pc' = "classified"
  /\ UNCHANGED <<status, analyzeVars, loadVars>>

NextClassify == Classify

SpecClassify == InitClassify /\ [][NextClassify]_vars

(* ---------------------------------------- specification: analyze_task_data *)
InitAnalyze ==
  /\ pc = "analyze"
  /\ df \in AnalyzeFrames
  /\ result = ZeroResult(FALSE)
  /\ ClassifyIdle
  /\ LoadIdle

Analyze ==
  /\ pc = "analyze"
  /\ result' = analyze_task_data(df)
  /\ pc' = "analyzed"
  /\ UNCHANGED <<df, classifyVars, loadVars>>

NextAnalyze == Analyze

SpecAnalyze == InitAnalyze /\ [][NextAnalyze]_vars

(* ------------------------------------ specification: load_and_process_data *)
Init ==
  /\ pc = "start"
  /\ match \in BOOLEAN
  /\ i = 0
  /\ department_data = <<>>
  /\ department_dfs = <<>>
  /\ messages = <<>>
  /\ attempts = [n \in Range(sheet_names) |-> 0]
  /\ fetched = <<>>
  /\ returned = ""
  /\ ClassifyIdle
  /\ AnalyzeIdle

\* lines 17-33: the sheet id is found and the loop is entered
Start ==
  /\ pc = "start"
  /\ match
  /\ pc' = "loop"
  /\ i' = 1
  /\ UNCHANGED <<match, department_data, department_dfs, messages, attempts,
                 fetched, returned, classifyVars, analyzeVars>>

\* lines 18-20: no sheet id in the URL
InvalidUrl ==
  /\ pc = "start"
  /\ ~match
  /\ pc' = "done"
  /\ returned' = "None"
  /\ messages' = Append(messages, [at |-> 0, level |-> "error", source |-> "url"])
  /\ UNCHANGED <<match, i, department_data, department_dfs, attempts, fetched,
                 classifyVars, analyzeVars>>

\* the st.warning of analyze_task_data's except clause, then the rest
AnalyzerMessages(r, at) ==
  IF r.warned
  THEN <<[at |-> at, level |-> "warning", source |-> "dataframe"]>>
  ELSE <<>>

\* lines 35-63: one iteration of the loop over sheet_names; an exception no
\* inner clause takes reaches the outer except (lines 68-70)
ProcessSheet ==
  /\ pc = "loop"
  /\ i <= Len(sheet_names)
  /\ \E o \in FetchOutcomes :
       LET sheet_name == sheet_names[i]
           r == analyze_task_data(o.df)
           h == InnerHandler(o.kind)
       IN  /\ attempts' = [attempts EXCEPT ![sheet_name] = @ + 1]
           /\ fetched' = Append(fetched, o)
           /\ IF o.kind = "ok"
              THEN /\ messages' = messages \o AnalyzerMessages(r, i)
                   /\ IF Included(r)
                      THEN /\ department_data' =
                                DictSet(department_data, sheet_name,
                                        Summary(r.total, r.statuses))
                           /\ department_dfs' =
                                DictSet(department_dfs, sheet_name,
                                        r.processed_df[1])
                      ELSE UNCHANGED <<department_data, department_dfs>>
                   /\ i' = i + 1
                   /\ UNCHANGED <<pc, returned>>
              ELSE IF h # ""
              THEN /\ messages' =
                        Append(messages,
                               [at |-> i, level |-> HandlerLevel(h), source |-> h])
                   /\ i' = i + 1
                   /\ UNCHANGED <<department_data, department_dfs, pc, returned>>
              ELSE /\ messages' =
                        Append(messages,
                               [at |-> i, level |-> "error", source |-> "major"])
                   /\ pc' = "done"
                   /\ returned' = "None"
                   /\ UNCHANGED <<department_data, department_dfs, i>>
  /\ UNCHANGED <<match, classifyVars, analyzeVars>>

\* lines 65-66: return department_data, department_dfs
Return ==
  /\ pc = "loop"
  /\ i > Len(sheet_names)
  /\ pc' = "done"
  /\ returned' = "mappings"
  /\ UNCHANGED <<match, i, department_data, department_dfs, messages,
                 attempts, fetched, classifyVars, analyzeVars>>

Next == Start \/ InvalidUrl \/ ProcessSheet \/ Return

Spec == Init /\ [][Next]_vars

\* the loop has no blocking step: requests.get is bounded by timeout=10
FairSpec == Spec /\ WF_vars(Next)

(* ======================================================================= *)
(* Properties of the classification step (SpecClassify)                    *)
(* ======================================================================= *)
\* the lower-cased, trimmed string form of the indicator value
StatusStr == Strip(Lower(PyStr(status)))

\* the step counted the value in bucket b and in no other bucket
OnlyBucket(b) ==
  /\ statuses[b] = 1
  /\ \A c \in Buckets \ {b} : statuses[c] = 0

\* C4 as stated: every indicator value whose lower-cased, trimmed string
\* contains "complete" or contains "100" is counted in Completed and in no
\* other bucket.
C4_ContainsCompleteOr100 ==
  (pc = "classified"
     /\ (Contains(StatusStr, COMPLETE) \/ Contains(StatusStr, ONE_HUNDRED)))
    => OnlyBucket("Completed")

\* C4 amended: an indicator value is counted in Completed, and in no other
\* bucket, exactly when its lower-cased, trimmed string equals "complete";
\* a value that only contains "complete" or "100" is not counted in Completed.
C4_ExactComplete ==
  pc = "classified" =>
    /\ StatusStr = COMPLETE => OnlyBucket("Completed")
    /\ StatusStr # COMPLETE => statuses["Completed"] = 0

\* C4 witness: " Complete" (capital, leading blank) was counted in Completed
C4_Witness ==
  /\ pc = "classified"
  /\ ~status.na
  /\ status.s = <<" ", "C", "o", "m", "p", "l", "e", "t", "e">>
  /\ OnlyBucket("Completed")

\* the value of a parsed token exceeds n, by signed cross-multiplication
Exceeds(v, n) == (IF v.neg THEN 0 - v.num ELSE v.num) > n * Pow10(v.scale)

\* the status string is exactly the characters given
StatusIs(chars) == ~status.na /\ status.s = chars

\* C5: a value that is not "complete" and has a first numeric token v is
\* counted in exactly one bucket: Almost Complete when v > 90, Half Done when
\* 50 < v <= 90, Work in Progress when v <= 50; of several numeric tokens the
\* first decides ("5 99" is 5, "99 5" is 99), and 90 and 50 themselves fall in
\* Half Done and Work in Progress.
C5_NumericBuckets ==
  pc = "classified" =>
    /\ (StatusStr # COMPLETE /\ FindallFirst(StatusStr).found) =>
         LET v == Float(FindallFirst(StatusStr).tok)
         IN  /\ Exceeds(v, 90) => OnlyBucket("Almost Complete")
             /\ (Exceeds(v, 50) /\ ~Exceeds(v, 90)) => OnlyBucket("Half Done")
             /\ ~Exceeds(v, 50) => OnlyBucket("Work in Progress")
    /\ StatusIs(<<"9", "0">>) => OnlyBucket("Half Done")
    /\ StatusIs(<<"5", "0">>) => OnlyBucket("Work in Progress")
    /\ StatusIs(<<"9", "0", ".", "5">>) => OnlyBucket("Almost Complete")
    /\ StatusIs(<<"5", "0", ".", "5">>) => OnlyBucket("Half Done")
    /\ StatusIs(<<"5", " ", "9", "9">>) => OnlyBucket("Work in Progress")
    /\ StatusIs(<<"9", "9", " ", "5">>) => OnlyBucket("Almost Complete")
    /\ StatusIs(<<"5", "5", "%">>) => OnlyBucket("Half Done")
    /\ StatusIs(<<"+", "9", "5">>) => OnlyBucket("Almost Complete")

\* C5 witness: "5 99" was classified by its first token, 5
C5_Witness ==
  /\ pc = "classified"
  /\ StatusIs(<<"5", " ", "9", "9">>)
  /\ OnlyBucket("Work in Progress")

\* a minus sign, digits, an optional decimal part, an optional "%"
IsNegativeNumber(s) ==
  /\ Len(s) >= 2
  /\ s[1] = "-"
  /\ DigitRun(s, 2) > 0
  /\ LET e == 1 + DigitRun(s, 2)
         f == IF e < Len(s) /\ s[e + 1] = "." /\ DigitRun(s, e + 2) > 0
              THEN e + 1 + DigitRun(s, e + 2)
              ELSE e
     IN  f = Len(s) \/ (f + 1 = Len(s) /\ s[Len(s)] = "%")

\* C6: every indicator value that is a negative number ("-95", "-95.5",
\* "-20%") is counted in Work in Progress.
C6_NegativeIsWorkInProgress ==
  (pc = "classified" /\ IsNegativeNumber(StatusStr))
    => OnlyBucket("Work in Progress")

(* ======================================================================= *)
(* Properties of analyze_task_data (SpecAnalyze)                           *)
(* ======================================================================= *)
RECURSIVE SumOver(_, _)
SumOver(f, keys) ==
  IF keys = {} THEN 0
  ELSE LET key == CHOOSE key \in keys : TRUE
       IN  f[key] + SumOver(f, keys \ {key})

\* sum(counts.values())
BucketSum(counts) == SumOver(counts, DOMAIN counts)

\* C3: in every result of analyze_task_data the four bucket counts sum to at
\* most total_tasks, also when the identifier column is blank in rows whose
\* indicator value is not.
C3_BucketSumAtMostTotal ==
  pc = "analyzed" => BucketSum(result.statuses) <= result.total

\* the rows of df that are not blank in every column, by index
CleanedIndex(frame) ==
  {k \in 1..Len(frame.rows) :
     \E c \in Range(frame.columns) : ~frame.rows[k][c].na}

\* C9: the identifier column is the first of "Project/Task Name", "KPI ID",
\* "Issue" that the table has, whatever the order of the table's columns;
\* total_tasks is the number of cleaned rows that are non-blank in it, and the
\* number of cleaned rows when the table has none of the three.
C9_TotalByIdentifierPriority ==
  (pc = "analyzed" /\ ~df.raises) =>
    LET cols == Range(df.columns)
        kept == CleanedIndex(df)
        NonBlank(c) == Cardinality({k \in kept : ~df.rows[k][c].na})
    IN  result.total =
          IF "Project/Task Name" \in cols THEN NonBlank("Project/Task Name")
          ELSE IF "KPI ID" \in cols THEN NonBlank("KPI ID")
          ELSE IF "Issue" \in cols THEN NonBlank("Issue")
          ELSE Cardinality(kept)

\* C9 witness: "KPI ID" comes first in the table and is non-blank in both
\* rows, "Project/Task Name" is non-blank in one, and total_tasks is 1
C9_Witness ==
  /\ pc = "analyzed"
  /\ df.columns = <<"KPI ID", "Project/Task Name">>
  /\ Len(df.rows) = 2
  /\ \A k \in 1..2 : ~df.rows[k]["KPI ID"].na
  /\ Cardinality({k \in 1..2 : ~df.rows[k]["Project/Task Name"].na}) = 1
  /\ result.total = 1

(* ======================================================================= *)
(* Properties of load_and_process_data (Spec, FairSpec)                    *)
(* ======================================================================= *)
\* the sheets the loop has been through, by index
Processed == 1..Len(fetched)

InData(n) == HasKey(department_data, sheet_names[n])

InDfs(n) == HasKey(department_dfs, sheet_names[n])

KeySet(d) == Range(Keys(d))

\* C1: a sheet the loop has been through is a key of department_data exactly
\* when its fetch succeeded and analyze_task_data returned total > 0 with a
\* table; a sheet whose fetch failed or whose total is 0 is a key of neither
\* mapping, no other name is a key, and the two mappings have the same keys.
C1_IncludedIffFetchedAndCounted ==
  /\ KeySet(department_data) = KeySet(department_dfs)
  /\ KeySet(department_data) \subseteq {sheet_names[n] : n \in Processed}
  /\ \A n \in Processed :
       LET r == analyze_task_data(fetched[n].df)
       IN  /\ InData(n) <=>
                (fetched[n].kind = "ok" /\ r.total > 0 /\ r.processed_df # <<>>)
           /\ (fetched[n].kind # "ok" \/ r.total = 0) => (~InData(n) /\ ~InDfs(n))

\* the table has an identifier column that is blank in every row that is left
OnlyBlankIdentifiers(frame) ==
  /\ "Issue" \in Range(frame.columns)
  /\ CleanedIndex(frame) # {}
  /\ \A k \in CleanedIndex(frame) : frame.rows[k]["Issue"].na

\* C1 witness: the function has returned; one sheet is included, and one was
\* fetched with a row but counted no task and is in neither mapping
C1_Witness ==
  /\ pc = "done"
  /\ returned = "mappings"
  /\ \E a, c \in Processed :
       /\ InData(a) /\ InDfs(a)
       /\ fetched[c].kind = "ok" /\ OnlyBlankIdentifiers(fetched[c].df)
       /\ ~InData(c) /\ ~InDfs(c)

AllAttemptedOnce == \A n \in 1..Len(sheet_names) : attempts[sheet_names[n]] = 1

\* C2: a failure on one sheet never aborts the others: no sheet is requested
\* twice, once the loop is entered the function comes to return both
\* mappings with every sheet requested exactly once, and when every sheet
\* failed both mappings are returned empty.
C2_FailuresNeverAbort ==
  /\ [](\A n \in 1..Len(sheet_names) : attempts[sheet_names[n]] <= 1)
  /\ []((pc = "done" /\ match) =>
          /\ returned = "mappings"
          /\ AllAttemptedOnce
          /\ (\A n \in Processed : fetched[n].kind # "ok") =>
               (department_data = <<>> /\ department_dfs = <<>>))
  /\ (pc = "loop") ~> (pc = "done" /\ returned = "mappings" /\ AllAttemptedOnce)

\* C2 witness: every sheet failed, the first with an HTTP error and the next
\* in pd.read_csv, and the function returned two empty mappings
C2_Witness ==
  /\ pc = "done"
  /\ returned = "mappings"
  /\ AllAttemptedOnce
  /\ \A n \in Processed : fetched[n].kind # "ok"
  /\ fetched[1].kind = "HTTPError"
  /\ fetched[2].kind = "Exception"
  /\ department_data = <<>>
  /\ department_dfs = <<>>

\* the table has an indicator column and "TBD" in it in every row
AllTBD(frame) ==
  /\ ~frame.raises
  /\ "Status" \in Range(frame.columns)
  /\ frame.rows # <<>>
  /\ \A k \in 1..Len(frame.rows) : frame.rows[k]["Status"] = Cell(TBD)

\* every identifier column the table has is non-blank in every row
IdentifiersFilled(frame) ==
  \A c \in Range(frame.columns) \cap Range(task_description_cols) :
    \A k \in 1..Len(frame.rows) : ~frame.rows[k][c].na

\* C7 as stated: for a sheet whose indicator column holds "TBD" in every row
\* all bucket counts are zero, total_tasks is the row count, and the sheet is
\* in the aggregate.
C7_TBDCountsEmpty ==
  \A n \in Processed :
    (fetched[n].kind = "ok" /\ AllTBD(fetched[n].df)) =>
      /\ InData(n)
      /\ LET e == Get(department_data, sheet_names[n])
         IN  /\ e["Total Tasks"] = Len(fetched[n].df.rows)
             /\ \A b \in Buckets : e[b] = 0

\* C7 amended: for a sheet whose indicator column holds "TBD" in every row,
\* every row is counted in Work in Progress and the other buckets are zero;
\* when the table has no identifier column, or the identifier is non-blank in
\* every row, total_tasks is the row count and the sheet is in the aggregate.
C7_TBDCountsWorkInProgress ==
  \A n \in Processed :
    (fetched[n].kind = "ok" /\ AllTBD(fetched[n].df)) =>
      LET frame == fetched[n].df
          r == analyze_task_data(frame)
      IN  /\ r.statuses =
               [b \in Buckets |->
                  IF b = "Work in Progress" THEN Len(frame.rows) ELSE 0]
          /\ IdentifiersFilled(frame) => (r.total = Len(frame.rows) /\ InData(n))
          /\ InData(n) =>
               LET e == Get(department_data, sheet_names[n])
               IN  /\ e["Total Tasks"] = r.total
                   /\ e["Work in Progress"] = Len(frame.rows)
                   /\ \A b \in Buckets \ {"Work in Progress"} : e[b] = 0

\* C7 witness: a sheet with "TBD" in every row and no identifier column is in
\* the aggregate with its row counted in Work in Progress
C7_Witness ==
  \E n \in Processed :
    /\ fetched[n].kind = "ok"
    /\ AllTBD(fetched[n].df)
    /\ fetched[n].df.columns = <<"Status">>
    /\ InData(n)
    /\ Get(department_data, sheet_names[n])["Work in Progress"] = 1
    /\ Get(department_data, sheet_names[n])["Total Tasks"] = 1

\* no row of the table has a value in any column
NoNonEmptyRow(frame) == ~frame.raises /\ CleanedIndex(frame) = {}

\* C8: for a table with no non-empty row analyze_task_data returns total 0
\* with empty counts and no table, without a warning, and the sheet is left
\* out of both mappings with no message reported for it.
C8_EmptyTableIsNoFailure ==
  \A n \in Processed :
    (fetched[n].kind = "ok" /\ NoNonEmptyRow(fetched[n].df)) =>
      LET r == analyze_task_data(fetched[n].df)
      IN  /\ r.total = 0
          /\ DOMAIN r.statuses = {}
          /\ r.processed_df = <<>>
          /\ ~r.warned
          /\ ~InData(n)
          /\ ~InDfs(n)
          /\ \A m \in 1..Len(messages) : messages[m].at # n

\* C8 witness: a sheet whose only row is blank in every column was left out,
\* next to a sheet that reported an error
C8_Witness ==
  /\ pc = "done"
  /\ \E n \in Processed :
       /\ fetched[n].kind = "ok"
       /\ NoNonEmptyRow(fetched[n].df)
       /\ fetched[n].df.rows # <<>>
       /\ ~InData(n)
  /\ messages # <<>>

\* the place of a name in the configured list
Position(name) == CHOOSE n \in 1..Len(sheet_names) : sheet_names[n] = name

\* the keys are in the order of the configured list
KeysInListOrder(d) ==
  \A a, b \in 1..Len(d) : a < b => Position(d[a].k) < Position(d[b].k)

IsPrefix(d, e) == Len(d) <= Len(e) /\ SubSeq(e, 1, Len(d)) = d

\* the sheets requested so far are the first ones of the list, once each
RequestedInOrder ==
  \A n \in 1..Len(sheet_names) :
    attempts[sheet_names[n]] = IF n \in Processed THEN 1 ELSE 0

\* C10: sheets are requested in list order, and every step leaves the keys of
\* the aggregate in list order, with the items it had before still in front
\* and unchanged.
C10_InsertionOrderIsListOrder ==
  [][/\ RequestedInOrder'
     /\ KeysInListOrder(department_data')
     /\ KeysInListOrder(department_dfs')
     /\ IsPrefix(department_data, department_data')
     /\ IsPrefix(department_dfs, department_dfs')]_vars

\* C10 witness: the first two sheets are included, and their keys are in the
\* order of the list in both mappings
C10_Witness ==
  /\ pc = "done"
  /\ Keys(department_data) = <<sheet_names[1], sheet_names[2]>>
  /\ Keys(department_dfs) = <<sheet_names[1], sheet_names[2]>>

====
